---- MODULE Spec2Model ----
(***************************************************************************)
(* Model of tools/browser_controller.py: a Flask application that drives   *)
(* one Firefox session kept in the module-level global `browser`.          *)
(*                                                                         *)
(* app.run (line 485) serves every request on its own thread, so handlers  *)
(* interleave.  A handler is split into steps at every read or write of    *)
(* the global `browser`; calls made on the local handle `b` are grouped    *)
(* into one step, since they touch no state the other handlers read.       *)
(* The browser driver is an external collaborator: a capability call on a  *)
(* running process may succeed or raise, on a process that is gone it      *)
(* raises, and on None it raises AttributeError.                           *)
(***************************************************************************)
EXTENDS Integers, Sequences, FiniteSets, TLC

\* ---- bounds of the model ----
NumThreads == 2      \* request threads served at once
MaxReq == 3          \* requests received in one run
MaxLaunch == 2       \* browser processes launched in one run
MaxRuns == 3         \* runs of equal anchors on a page (links listing)
LongRun == 99        \* length of a long run of anchors
MaxFields == 2       \* elements of each form category on a page

\* ---- program constants ----
LinkCap == 100       \* links[:100]

Threads == 1..NumThreads
None == 0            \* Python None as the value of `browser` / `b`

VARIABLES
    browser,     \* the global `browser` (line 22): None or a handle
    nlaunched,   \* number of webdriver.Firefox(...) constructed (line 36)
    running,     \* handles whose browser process is running (lines 36, 85)
    discarded,   \* history: handles dropped by status() (lines 58-59)
    frame,       \* per thread: the running handler's position and locals
    last,        \* the response of the request that completed last
    nreq,        \* requests received so far
    dom,         \* the page: the lists find_elements returns (lines 145, 182-184)
    listing      \* `result` of the last successful listing (lines 147, 186)

vars == <<browser, nlaunched, running, discarded, frame, last, nreq, dom, listing>>

session == <<browser, nlaunched, running, discarded>>

\* ---- handler frames ----
IdleFrame ==
    [pc |-> "idle", op |-> "none", b |-> None, absent |-> FALSE,
     found |-> "none", acts |-> 0, clear |-> FALSE]

NoResponse ==
    [op |-> "none", code |-> 0, status |-> "none", msg |-> "none",
     found |-> "none", acts |-> 0]

\* Endpoints whose handler calls get_browser() inside its try block.
SessionOps ==
    {"start", "goto", "screenshot", "links", "forms", "buttons",
     "click", "fill", "execute", "back", "forward", "refresh"}

NoneTypeMsg == "'NoneType' object has no attribute"
FaultMsg == "str(e)"

EmptyDom == [a |-> <<>>, inputs |-> <<>>, textareas |-> <<>>, selects |-> <<>>]

\* Outcomes of one capability call made through handle h.
Outcomes(h) == IF h \in running THEN {"ok", "fault"} ELSE {"fault"}

\* The handler of thread t returns: the thread is free again and the response
\* is recorded.  f is the frame at the return.
Finish(t, f, code, status, msg) ==
    /\ frame' = [frame EXCEPT ![t] = IdleFrame]
    /\ last' = [op |-> f.op, code |-> code, status |-> status, msg |-> msg,
                found |-> f.found, acts |-> f.acts]

\* An exception leaves the handler uncaught: Flask answers with its own
\* error page, no JSON envelope is produced.
Propagate(t, f, msg) == Finish(t, f, 0, "raised", msg)

\* A request for endpoint o arrives on the free thread t and its handler
\* runs up to and including its first read of the global `browser` (what
\* comes before is local to the handler); first is where it continues.
Receive(t, o, first) ==
    /\ frame[t].pc = "idle"
    /\ nreq < MaxReq
    /\ nreq' = nreq + 1
    /\ frame' = [frame EXCEPT ![t] =
                   [IdleFrame EXCEPT !.pc = first, !.op = o,
                                     !.absent = (o \in SessionOps /\ browser = None)]]
    /\ UNCHANGED <<last, session, dom, listing>>

\* A request whose handler ends before it touches the session.
Reject(t, o, code, status, msg) ==
    /\ frame[t].pc = "idle"
    /\ nreq < MaxReq
    /\ nreq' = nreq + 1
    /\ Finish(t, [IdleFrame EXCEPT !.op = o], code, status, msg)
    /\ UNCHANGED <<session, dom, listing>>

\* ---- get_browser(), lines 25-37 ----
\* line 28: if browser is None
get_browser_check == IF browser = None THEN "gb_launch" ELSE "gb_return"

\* A request for the session endpoint o arrives: the handler validates its
\* input, enters its try block and calls get_browser(), which tests the global.
Acquire(t, o) == Receive(t, o, get_browser_check)

\* lines 29-36: browser = webdriver.Firefox(...); the constructor may raise,
\* and the exception reaches the caller's `except Exception`.
get_browser_launch(t) ==
    /\ frame[t].pc = "gb_launch"
    /\ \/ /\ nlaunched < MaxLaunch
          /\ nlaunched' = nlaunched + 1
          /\ running' = running \cup {nlaunched + 1}
          /\ browser' = nlaunched + 1
          /\ frame' = [frame EXCEPT ![t].pc = "gb_return"]
          /\ UNCHANGED <<last, discarded>>
       \/ /\ Finish(t, frame[t], 500, "error", FaultMsg)
          /\ UNCHANGED session
    /\ UNCHANGED <<nreq, dom, listing>>

\* Where a handler continues after `b = get_browser()`.
AfterAcquire(o) ==
    CASE o = "start" -> "ret"
      [] o \in {"click", "fill"} -> "find"
      [] OTHER -> "cap"

\* line 37: return browser  (reads the global again)
get_browser_return(t) ==
    /\ frame[t].pc = "gb_return"
    /\ frame' = [frame EXCEPT ![t].b = browser,
                              ![t].pc = AfterAcquire(frame[t].op)]
    /\ UNCHANGED <<last, nreq, session, dom, listing>>

get_browser(t) ==
    \/ get_browser_launch(t)
    \/ get_browser_return(t)

\* ---- status(), lines 39-63 ----
\* lines 43-47: no session -> 'stopped'
status_check(t) ==
    \/ /\ browser = None
       /\ Reject(t, "status", 200, "stopped", "none")
    \/ /\ browser # None
       /\ Receive(t, "status", "st_read")

\* lines 49-57: browser.current_url, browser.title, browser.get_window_size()
\* read through the global; a WebDriverException goes to the except clause,
\* an AttributeError (the global was cleared meanwhile) is not caught.
status_read(t) ==
    /\ frame[t].pc = "st_read"
    /\ \/ /\ browser = None
          /\ Propagate(t, frame[t], NoneTypeMsg)
       \/ /\ browser # None
          /\ \E r \in Outcomes(browser) :
               \/ /\ r = "ok"
                  /\ Finish(t, frame[t], 200, "running", "none")
               \/ /\ r = "fault"
                  /\ frame' = [frame EXCEPT ![t].pc = "st_except", ![t].b = browser]
                  /\ UNCHANGED last
    /\ UNCHANGED <<nreq, session, dom, listing>>

\* A variant of the except clause that keeps the handle.
status_except_keep(t) ==
    /\ frame[t].pc = "st_except"
    /\ discarded' = discarded \cup {frame[t].b}
    /\ Finish(t, frame[t], 200, "error", "Browser session died")
    /\ UNCHANGED <<browser, nlaunched, running, nreq, dom, listing>>

\* lines 58-63: except WebDriverException: browser = None; status 'error'
status_except(t) ==
    /\ frame[t].pc = "st_except"
    /\ browser' = None
    /\ discarded' = discarded \cup {frame[t].b}
    /\ Finish(t, frame[t], 200, "error", "Browser session died")
    /\ UNCHANGED <<nlaunched, running, nreq, dom, listing>>

status(t) ==
    \/ status_check(t)
    \/ status_read(t)
    \/ status_except(t)

\* ---- start(), lines 65-78 ----
start(t) ==
    \/ Acquire(t, "start")
    \/ /\ frame[t].pc = "ret"
       /\ Finish(t, frame[t], 200, "success", "Browser started")
       /\ UNCHANGED <<nreq, session, dom, listing>>

\* ---- stop(), lines 80-94 ----
\* line 84: if browser  /  lines 91-94: 'Browser was not running'
stop_check(t) ==
    \/ /\ browser = None
       /\ Reject(t, "stop", 200, "success", "Browser was not running")
    \/ /\ browser # None
       /\ Receive(t, "stop", "sp_quit")

\* line 85: browser.quit(), through the global and outside any try block
stop_quit(t) ==
    /\ frame[t].pc = "sp_quit"
    /\ \/ /\ browser = None
          /\ Propagate(t, frame[t], NoneTypeMsg)
          /\ UNCHANGED running
       \/ /\ browser # None
          /\ \E r \in Outcomes(browser) :
               \/ /\ r = "ok"
                  /\ running' = running \ {browser}
                  /\ frame' = [frame EXCEPT ![t].pc = "sp_clear"]
                  /\ UNCHANGED last
               \/ /\ r = "fault"
                  /\ Propagate(t, frame[t], FaultMsg)
                  /\ UNCHANGED running
    /\ UNCHANGED <<browser, nlaunched, discarded, nreq, dom, listing>>

\* lines 86-90: browser = None; 'Browser stopped'
stop_clear(t) ==
    /\ frame[t].pc = "sp_clear"
    /\ browser' = None
    /\ Finish(t, frame[t], 200, "success", "Browser stopped")
    /\ UNCHANGED <<nlaunched, running, discarded, nreq, dom, listing>>

stop(t) ==
    \/ stop_check(t)
    \/ stop_quit(t)
    \/ stop_clear(t)

\* A variant in which a failing capability call drops the handle, as the
\* except clause of status() does.
CapabilityResets(t, o, okmsg) ==
    /\ frame[t].pc = "cap"
    /\ frame[t].op = o
    /\ IF frame[t].b = None
         THEN Finish(t, frame[t], 500, "error", NoneTypeMsg) /\ UNCHANGED browser
         ELSE \E r \in Outcomes(frame[t].b) :
                \/ /\ r = "ok"
                   /\ Finish(t, frame[t], 200, "success", okmsg)
                   /\ UNCHANGED browser
                \/ /\ r = "fault"
                   /\ Finish(t, frame[t], 500, "error", FaultMsg)
                   /\ browser' = None
    /\ UNCHANGED <<nreq, nlaunched, running, discarded, dom, listing>>

\* The capability calls a handler makes on its local handle b, inside its
\* try block: any exception becomes the 500 envelope.
Capability(t, o, okmsg) ==
    /\ frame[t].pc = "cap"
    /\ frame[t].op = o
    /\ IF frame[t].b = None
         THEN Finish(t, frame[t], 500, "error", NoneTypeMsg)
         ELSE \E r \in Outcomes(frame[t].b) :
                \/ /\ r = "ok"
                   /\ Finish(t, frame[t], 200, "success", okmsg)
                \/ /\ r = "fault"
                   /\ Finish(t, frame[t], 500, "error", FaultMsg)
    /\ UNCHANGED <<nreq, session, dom, listing>>

\* request.get_json() yields no dict (data.get raises, outside the try block).
BadBody(t, o) == Reject(t, o, 0, "raised", NoneTypeMsg)

\* ---- goto(), lines 96-119 ----
goto(t) ==
    \/ BadBody(t, "goto")
    \/ Reject(t, "goto", 400, "error", "URL required")
    \/ Acquire(t, "goto")
    \/ Capability(t, "goto", "none")

\* ---- screenshot(), lines 121-138 ----
screenshot(t) ==
    \/ Acquire(t, "screenshot")
    \/ Capability(t, "screenshot", "none")

\* ---- page elements ----
\* An anchor as the loop of get_links sees it: "url" has a destination,
\* "nohref" has get_attribute('href') None or '' (both falsy), "fault" raises
\* on an attribute read.
AnchorKinds == {"url", "nohref", "fault"}

HrefOf(k) == IF k = "url" THEN "http://x/" ELSE ""

Min(x, y) == IF x < y THEN x ELSE y

Repeat(k, n) == [i \in 1..n |-> k]

\* The anchors of a page, from its run-length form <<<<kind, n>>, ...>>.
RECURSIVE Expand(_)
Expand(runs) ==
    IF runs = <<>> THEN <<>>
    ELSE Repeat(runs[1][1], runs[1][2]) \o Expand(Tail(runs))

\* A variant without the cap.
TruncateNone(links) == links

\* line 148: links[:100]
Truncate(links) == SubSeq(links, 1, Min(LinkCap, Len(links)))

\* lines 149-162, the loop body for the element at position i (1-based) of
\* the truncated list: what it appends.  'index' is the enumerate counter.
LinkBody(links, i) ==
    IF links[i] = "fault" THEN <<>>
    ELSE IF HrefOf(links[i]) # ""
         THEN <<[index |-> i - 1, href |-> HrefOf(links[i])]>>
         ELSE <<>>

\* line 148: for i, link in enumerate(links[:100]), positions lo..hi.  What an
\* iteration appends depends on its own element only, so the loop is
\* evaluated by halves, which keeps the recursion shallow.
RECURSIVE LinksLoop(_, _, _)
LinksLoop(links, lo, hi) ==
    IF lo > hi THEN <<>>
    ELSE IF lo = hi THEN LinkBody(links, lo)
    ELSE LET mid == (lo + hi) \div 2
         IN  LinksLoop(links, lo, mid) \o LinksLoop(links, mid + 1, hi)

\* A variant of the listing that numbers the entries by their position in
\* the result ('index': len(result)).
LinkEntriesDense(links) ==
    LET r == LinksLoop(Truncate(links), 1, Len(Truncate(links)))
    IN  [k \in 1..Len(r) |-> [r[k] EXCEPT !.index = k - 1]]

\* lines 147-162: the `links` list of the response
LinkEntries(links) == LinksLoop(Truncate(links), 1, Len(Truncate(links)))

\* Form elements: "ok" reads all its attributes, "fault" raises on one.
FieldKinds == {"ok", "fault"}

\* A variant of the loop that numbers by the enumerate counter ('index': i).
RECURSIVE FieldsLoopEnum(_, _, _, _)
FieldsLoopEnum(elems, type, i, result) ==
    IF i > Len(elems) THEN result
    ELSE IF elems[i] = "fault" THEN FieldsLoopEnum(elems, type, i + 1, result)
    ELSE FieldsLoopEnum(elems, type, i + 1,
             Append(result, [type |-> type, index |-> i - 1]))

\* lines 189-232: one of the three loops; 'index' is len(result).
RECURSIVE FieldsLoop(_, _, _, _)
FieldsLoop(elems, type, i, result) ==
    IF i > Len(elems) THEN result
    ELSE IF elems[i] = "fault" THEN FieldsLoop(elems, type, i + 1, result)
    ELSE FieldsLoop(elems, type, i + 1,
             Append(result, [type |-> type, index |-> Len(result)]))

\* lines 186-232: the `fields` list of the response
FieldEntries(inputs, textareas, selects) ==
    FieldsLoop(selects, "select", 1,
        FieldsLoop(textareas, "textarea", 1,
            FieldsLoop(inputs, "input", 1, <<>>)))

\* A listing handler after `b = get_browser()`: find_elements, then the loop.
Listing(t, o, entries) ==
    /\ frame[t].pc = "cap"
    /\ frame[t].op = o
    /\ IF frame[t].b = None
         THEN Finish(t, frame[t], 500, "error", NoneTypeMsg) /\ UNCHANGED listing
         ELSE \E r \in Outcomes(frame[t].b) :
                \/ /\ r = "ok"
                   /\ listing' = entries
                   /\ Finish(t, frame[t], 200, "success", "none")
                \/ /\ r = "fault"
                   /\ Finish(t, frame[t], 500, "error", FaultMsg)
                   /\ UNCHANGED listing
    /\ UNCHANGED <<nreq, session, dom>>

\* ---- get_links(), lines 140-173 ----
get_links(t) ==
    \/ Acquire(t, "links")
    \/ Listing(t, "links", LinkEntries(Expand(dom.a)))

\* ---- get_forms(), lines 175-243 ----
get_forms(t) ==
    \/ Acquire(t, "forms")
    \/ Listing(t, "forms", FieldEntries(dom.inputs, dom.textareas, dom.selects))

\* ---- get_buttons(), lines 245-277 (the entries are not modelled) ----
get_buttons(t) ==
    \/ Acquire(t, "buttons")
    \/ Capability(t, "buttons", "none")

\* A variant in which NoSuchElementException falls to `except Exception`.
find_element_generic(t, o) ==
    /\ frame[t].pc = "find"
    /\ frame[t].op = o
    /\ IF frame[t].b = None
         THEN Finish(t, frame[t], 500, "error", NoneTypeMsg)
         ELSE \E r \in Outcomes(frame[t].b) \cup
                       (IF frame[t].b \in running THEN {"nse"} ELSE {}) :
                \/ /\ r = "ok"
                   /\ frame' = [frame EXCEPT ![t].pc = "act", ![t].found = "elem"]
                   /\ UNCHANGED last
                \/ /\ r = "nse"
                   /\ Finish(t, [frame[t] EXCEPT !.found = "nse"],
                             500, "error", FaultMsg)
                \/ /\ r = "fault"
                   /\ Finish(t, frame[t], 500, "error", FaultMsg)
    /\ UNCHANGED <<nreq, session, dom, listing>>

\* lines 306 / 351: b.find_element(by_type, selector) and the except clauses
\* that receive what it raises.
find_element(t, o) ==
    /\ frame[t].pc = "find"
    /\ frame[t].op = o
    /\ IF frame[t].b = None
         THEN Finish(t, frame[t], 500, "error", NoneTypeMsg)
         ELSE \E r \in Outcomes(frame[t].b) \cup
                       (IF frame[t].b \in running THEN {"nse"} ELSE {}) :
                \/ /\ r = "ok"
                   /\ frame' = [frame EXCEPT ![t].pc = "act", ![t].found = "elem"]
                   /\ UNCHANGED last
                \/ /\ r = "nse"
                   /\ Finish(t, [frame[t] EXCEPT !.found = "nse"],
                             404, "error", "Element not found")
                \/ /\ r = "fault"
                   /\ Finish(t, frame[t], 500, "error", FaultMsg)
    /\ UNCHANGED <<nreq, session, dom, listing>>

\* The calls made on the element found, n of them, then the response.
element_act(t, o, n, okmsg) ==
    /\ frame[t].pc = "act"
    /\ frame[t].op = o
    /\ \E r \in Outcomes(frame[t].b) :
         \/ /\ r = "ok"
            /\ Finish(t, [frame[t] EXCEPT !.acts = n], 200, "success", okmsg)
         \/ /\ r = "fault"
            /\ Finish(t, frame[t], 500, "error", FaultMsg)
    /\ UNCHANGED <<nreq, session, dom, listing>>

\* ---- click(), lines 279-325 ----
click(t) ==
    \/ BadBody(t, "click")
    \/ Reject(t, "click", 400, "error", "Selector required")
    \/ Acquire(t, "click")
    \/ find_element(t, "click")
    \/ element_act(t, "click", 1, "Element clicked")

\* ---- fill(), lines 327-373 ----
\* line 334: clear_first = data.get('clear', True)
fill_receive(t) ==
    /\ Acquire(t, "fill")
    /\ \E c \in BOOLEAN : frame'[t].clear = c

fill(t) ==
    \/ BadBody(t, "fill")
    \/ Reject(t, "fill", 400, "error", "Selector required")
    \/ fill_receive(t)
    \/ find_element(t, "fill")
    \/ element_act(t, "fill", IF frame[t].clear THEN 2 ELSE 1, "Field filled")

\* ---- execute_script(), lines 375-396 ----
execute_script(t) ==
    \/ BadBody(t, "execute")
    \/ Reject(t, "execute", 400, "error", "Script required")
    \/ Acquire(t, "execute")
    \/ Capability(t, "execute", "none")

\* ---- go_back(), go_forward(), refresh(), lines 398-450 ----
go_back(t) ==
    \/ Acquire(t, "back")
    \/ Capability(t, "back", "none")

go_forward(t) ==
    \/ Acquire(t, "forward")
    \/ Capability(t, "forward", "none")

refresh(t) ==
    \/ Acquire(t, "refresh")
    \/ Capability(t, "refresh", "none")

\* The browser process dies on its own.
Crash ==
    /\ \E h \in running : running' = running \ {h}
    /\ UNCHANGED <<browser, nlaunched, discarded, frame, last, nreq, dom, listing>>

\* The state when the server starts (line 22: browser = None), showing page d.
InitOn(d) ==
    /\ browser = None
    /\ nlaunched = 0
    /\ running = {}
    /\ discarded = {}
    /\ frame = [t \in Threads |-> IdleFrame]
    /\ last = NoResponse
    /\ nreq = 0
    /\ dom = d
    /\ listing = <<>>

Init == InitOn(EmptyDom)

Next ==
    \/ \E t \in Threads :
         \/ get_browser(t)
         \/ status(t)
         \/ start(t)
         \/ stop(t)
         \/ goto(t)
         \/ screenshot(t)
         \/ get_links(t)
         \/ get_forms(t)
         \/ get_buttons(t)
         \/ click(t)
         \/ fill(t)
         \/ execute_script(t)
         \/ go_back(t)
         \/ go_forward(t)
         \/ refresh(t)
    \/ Crash

Spec == Init /\ [][Next]_vars

\* ---- the session lifecycle alone ----
\* Every session endpoint touches `browser` only through get_browser(), so
\* goto stands for all of them where only the session is observed.
LifecycleNext ==
    \/ \E t \in Threads :
         \/ get_browser(t)
         \/ status(t)
         \/ start(t)
         \/ stop(t)
         \/ goto(t)
    \/ Crash

LifecycleSpec == Init /\ [][LifecycleNext]_vars

\* ---- the element interactions, with the endpoints that end the session ----
InteractNext ==
    \/ \E t \in Threads :
         \/ get_browser(t)
         \/ click(t)
         \/ fill(t)
         \/ stop(t)
    \/ Crash

InteractSpec == Init /\ [][InteractNext]_vars

\* ---- every endpoint, with one client for the session operations ----
\* The session endpoints arrive one at a time (on the first thread), while
\* status and stop, the handlers that write None to the global, arrive on
\* every thread and interleave with them and with each other.
DeadHandleNext ==
    \/ \E t \in Threads :
         \/ status(t)
         \/ stop(t)
    \/ get_browser(1)
    \/ start(1)
    \/ goto(1)
    \/ screenshot(1)
    \/ get_links(1)
    \/ get_forms(1)
    \/ get_buttons(1)
    \/ click(1)
    \/ fill(1)
    \/ execute_script(1)
    \/ go_back(1)
    \/ go_forward(1)
    \/ refresh(1)
    \/ Crash

DeadHandleSpec == Init /\ [][DeadHandleNext]_vars

\* ---- the listings as functions of the page ----
\* One client at a time asks for the listing of a page drawn from a bounded
\* family: the response body depends on the page alone.
SeqsUpTo(S, n) == UNION {[1..k -> S] : k \in 0..n}

LinkPages ==
    {[EmptyDom EXCEPT !.a = r] : r \in SeqsUpTo(AnchorKinds \X {1, LongRun}, MaxRuns)}

LinksNext == get_links(1) \/ get_browser(1)

LinksSpec == (\E d \in LinkPages : InitOn(d)) /\ [][LinksNext]_vars

FormPages ==
    {[EmptyDom EXCEPT !.inputs = i, !.textareas = x, !.selects = c] :
        i \in SeqsUpTo(FieldKinds, MaxFields),
        x \in SeqsUpTo(FieldKinds, MaxFields),
        c \in SeqsUpTo(FieldKinds, MaxFields)}

FormsNext == get_forms(1) \/ get_browser(1)

FormsSpec == (\E d \in FormPages : InitOn(d)) /\ [][FormsNext]_vars

\* ======================= properties =======================

\* Thread t holds the handle b and is between get_browser() and the end of
\* its capability calls.
Driving(t) == frame[t].pc \in {"cap", "find", "act"} /\ frame[t].b # None

\* C1: at most one browser process is launched and not yet terminated, under
\* every interleaving of requests.
C1_AtMostOneSession == Cardinality(running) <= 1

\* C2: no two requests are at once between their acquire and the end of their
\* capability calls on the same browser handle.
C2_Serialized ==
    \A t1, t2 \in Threads :
        (Driving(t1) /\ Driving(t2) /\ frame[t1].b = frame[t2].b) => t1 = t2

\* C3: when the liveness check of status() raises a WebDriverException, status()
\* answers with the dead state ('error', 'Browser session died') and clears
\* the global, and no get_browser() that returns afterwards returns a handle
\* status() has dropped.
C3_ProbeDropsDeadHandle ==
    [][\A t \in Threads :
         /\ (frame[t].pc = "st_except" /\ frame'[t].pc = "idle")
              => /\ browser' = None
                 /\ last'.op = "status" /\ last'.code = 200
                 /\ last'.status = "error" /\ last'.msg = "Browser session died"
         /\ (frame[t].pc = "gb_return" /\ frame'[t].pc # "gb_return")
              => frame'[t].b \notin discarded]_vars

\* C3 witness: after status() dropped a handle, a later request holds a
\* handle launched after it.
C3_Witness ==
    \E t \in Threads : \E h \in discarded :
        frame[t].pc \in {"cap", "ret"} /\ frame[t].b > h /\ last.op = "status"

\* C4: an operation invoked with no Session holds a Session when it makes its
\* capability call (one is created first), so it never fails for lack of one.
C4_SessionCreatedBeforeUse ==
    \A t \in Threads :
        (frame[t].absent /\ frame[t].pc \in {"cap", "find", "act"})
            => frame[t].b # None

\* A step in which a stop request returns.
StopReturns(t) ==
    /\ frame'[t].pc = "idle"
    /\ last'.op = "stop"
    /\ \/ frame[t].pc \in {"sp_quit", "sp_clear"}
       \/ frame[t].pc = "idle" /\ nreq' # nreq

\* C5: every stop is a success and leaves the handle absent, whether or not
\* a Session existed; so a second stop is a success that changes nothing.
C5_StopIdempotent ==
    [][\A t \in Threads :
         StopReturns(t) => (last'.status = "success" /\ browser' = None)]_vars

\* C6: every request ends with a success or failure envelope; no fault
\* propagates out of a handler.
C6_NoFaultPropagates == last.status # "raised"

\* C7: click and fill whose selector matches no element answer 404 'Element
\* not found', never 500, and have not clicked, cleared or typed.
C7_ElementNotFound ==
    (last.op \in {"click", "fill"} /\ last.found = "nse")
        => (last.code = 404 /\ last.status = "error"
            /\ last.msg = "Element not found" /\ last.acts = 0)

\* C7 witness: a fill on a live session whose selector matched nothing.
C7_Witness == last.op = "fill" /\ last.found = "nse" /\ last.code = 404

\* The anchors of the page, in document order.
Anchors == Expand(dom.a)

LinksListed == last.op = "links" /\ last.code = 200

\* C8: a successful links listing has at most 100 entries, each with a
\* non-empty href.
C8_LinksCappedWithHref ==
    LinksListed =>
        /\ Len(listing) <= LinkCap
        /\ \A k \in 1..Len(listing) : listing[k].href # ""

\* C8 witness: a page of more than 100 anchors, with anchors lacking a
\* destination and faulting ones among the first 100, is listed.
C8_Witness ==
    /\ LinksListed
    /\ Len(Anchors) > LinkCap
    /\ \E i, j \in 1..LinkCap : Anchors[i] = "nohref" /\ Anchors[j] = "fault"
    /\ Len(listing) > 0

\* C9 as stated: the k-th entry of the links listing has index k (from 0).
C9_IndexIsFilteredPosition ==
    LinksListed => \A k \in 1..Len(listing) : listing[k].index = k - 1

\* C9 as amended: the k-th entry describes the k-th anchor with a destination
\* among the first 100 anchors, and its index is that anchor's position in
\* the DOM list of anchors.
C9_IndexIsDomPosition ==
    LinksListed =>
        LET a == Anchors
            good == {i \in 1..Min(LinkCap, Len(a)) : a[i] = "url"}
        IN  /\ Len(listing) = Cardinality(good)
            /\ \A k \in 1..Len(listing) :
                  LET j == listing[k].index + 1
                  IN  /\ j \in good
                      /\ Cardinality({i \in good : i < j}) = k - 1

\* C9 witness: a listing in which an entry's index exceeds its position.
C9_Witness ==
    LinksListed /\ \E k \in 1..Len(listing) : listing[k].index > k - 1

FormsListed == last.op = "forms" /\ last.code = 200

\* C10: the index values of a form-field listing of n entries are 0..n-1 in
\* output order, also when elements were dropped.
C10_FieldIndexDense ==
    FormsListed => \A k \in 1..Len(listing) : listing[k].index = k - 1

\* C10 witness: an input and a textarea were dropped and a select is listed
\* after entries of the other two categories.
C10_Witness ==
    /\ FormsListed
    /\ \E i \in 1..Len(dom.inputs) : dom.inputs[i] = "fault"
    /\ \E i \in 1..Len(dom.textareas) : dom.textareas[i] = "fault"
    /\ \E k \in 3..Len(listing) :
          /\ listing[k].type = "select"
          /\ listing[1].type = "input"
          /\ listing[k - 1].type = "textarea"

\* Endpoints that make capability calls on the handle get_browser() returned.
CapabilityOps == SessionOps \ {"start"}

\* Thread t is about to call the driver through a handle whose process died.
OnDeadHandle(t) ==
    /\ frame[t].pc \in {"cap", "find", "act"}
    /\ frame[t].op \in CapabilityOps
    /\ frame[t].b # None
    /\ frame[t].b \notin running

\* C11: only status() and stop() clear the handle; an operation calling the
\* driver through a dead handle answers 500 and leaves the global as it is;
\* and a session operation that finds a handle in the global, dead or not,
\* launches nothing and takes what the global holds.
C11_DeadHandleStays ==
    [][/\ (browser # None /\ browser' = None)
            => \E t \in Threads :
                   /\ frame[t].pc \in {"st_except", "sp_clear"}
                   /\ frame'[t].pc = "idle"
       /\ \A t \in Threads :
            /\ (OnDeadHandle(t) /\ frame'[t] # frame[t])
                 => /\ frame'[t].pc = "idle"
                    /\ last'.op = frame[t].op
                    /\ last'.code = 500 /\ last'.status = "error"
                    /\ browser' = browser
            /\ (frame[t].pc = "idle" /\ frame'[t].op \in SessionOps
                   /\ browser # None)
                 => (frame'[t].pc = "gb_return" /\ UNCHANGED session)
            /\ (frame[t].pc = "gb_return" /\ frame'[t] # frame[t])
                 => (frame'[t].b = browser /\ UNCHANGED session)]_vars

\* C11 witness: an operation failed with 500 on the dead handle, the handle
\* is still in the global, and a later operation has taken it again.
C11_Witness ==
    /\ last.op \in CapabilityOps /\ last.code = 500 /\ last.msg = FaultMsg
    /\ browser # None /\ browser \notin running
    /\ \E t \in Threads :
          /\ frame[t].pc \in {"cap", "find"}
          /\ frame[t].op \in CapabilityOps
          /\ ~frame[t].absent
          /\ frame[t].b = browser
====
